---- MODULE Spec2Model ----
(***************************************************************************)
(* A model of the RAG starter kit: the chunker (ingest.py chunk_text), the  *)
(* ingestion run (ingest.py process_file, main, __main__) and the query     *)
(* path (app.py get_embedding, retrieve_relevant_documents,                 *)
(* generate_response and the chat flow of main).                            *)
(*                                                                          *)
(* Texts are sequences of one-character strings.  Similarities are integers *)
(* in thousandths (0.15 is 150).  Four specifications share the module:     *)
(*   SpecChunk     chunk_text applied to a text and a maximum size          *)
(*   SpecRetrieve  one call of retrieve_relevant_documents                  *)
(*   SpecChat      generate_response, alone and in the turns of the chat    *)
(*   Spec          ingestion runs of ingest.py against one store            *)
(***************************************************************************)
EXTENDS Integers, Sequences, FiniteSets, TLC

VARIABLES
    \* ---- chunker (SpecChunk)
    chunk_pc,           \* "idle" | "call" | "return"
    max_chunk_size,     \* the max_chunk_size argument
    final_chunks,       \* the list chunk_text returned
    text                \* the text argument

VARIABLES
    \* ---- query path (SpecRetrieve)
    r_pc,                   \* "idle" | "embed" | "search" | "done"
    max_results,            \* the max_results argument
    similarity_threshold,   \* the similarity_threshold argument, in thousandths
    query_embedding,        \* what get_embedding returned for the query
    embed_failures,         \* the error texts of the failed embedding calls
    data,                   \* result.data of the match_documents call
    r_failure,              \* "none" | "rpc" | "filter": the step that raised
    retrieved,              \* the list retrieve_relevant_documents returned
    r_raised,               \* retrieve_relevant_documents raised to its caller
    ui                      \* the diagnostics shown (st.error, st.warning)

VARIABLES
    \* ---- ingestion (Spec): the process, main and process_file
    run,            \* the number of the ingestion run (one process per run)
    m_pc,           \* "startup" | "loop" | "exited": position of __main__/main
    exit_code,      \* -1 while the process runs, then its exit status
    interrupted,    \* the run was ended by a KeyboardInterrupt
    must_cancel,    \* an interrupt asked for the cancellation of main's task
    file_idx,       \* index in markdown_files of the current file
    m_successful,   \* main's successful counter
    m_failed,       \* main's failed counter
    pf_pc,          \* "idle" | "check" | "chunk" | "gather" | "sleep"
    contents,       \* the text of each file of ./data
    chunks,         \* process_file's chunks
    chunk_num,      \* process_file's chunk_num
    successful,     \* process_file's successful counter
    embedding,      \* the embedding result of the current gather
    summary,        \* the summary result of the current gather
    outstanding,    \* the remote model requests sent and not yet answered
    store,          \* the rows of site_pages
    other_writes,   \* rows written by another ingestion process
    \* ---- what happened in the current run
    outcome,        \* per file: "none", or what process_file returned
    fatal,          \* the files whose processing a fatal error ended
    \* ---- what happened in the current call of process_file (or, between
    \* two calls, in the last one)
    skipped,        \* the file was reported "Already exists, skipping"
    seen_in_store,  \* the store held a row of the file when it was checked
    attempted,      \* the chunks whose embedding and summary were requested
    inserted,       \* the chunks whose row this call inserted
    insert_failed,  \* the chunks whose insert failed for another reason
    duplicates,     \* the chunks whose insert the store rejected as duplicate
    summary_failed, \* the chunks whose awaited summary call failed
    raised          \* the classified ValueError process_file caught

VARIABLES
    \* ---- chat (SpecChat): generate_response and the chat flow of app.py main
    chat_pc,        \* "off" | "input" | "retrieve" | "generate"
    client_ok,      \* init_clients returned an OpenAI client
    submitted,      \* the number of prompts submitted to the chat input
    messages,       \* st.session_state.messages
    sources,        \* what retrieve_relevant_documents returned in this turn
    chat_raised,    \* an exception left main in this turn
    g_pc,           \* "idle" | "call" | "returned": generate_response
    g_context,      \* the context_documents argument
    g_result,       \* what generate_response returned
    g_requested,    \* this call sent a request to the completion model
    g_prompt,       \* the context entries of the system prompt this call built
    g_errors        \* the error texts of the completion calls that failed

chunk_vars == <<chunk_pc, max_chunk_size, final_chunks, text>>

main_vars == <<run, m_pc, exit_code, interrupted, must_cancel, file_idx,
              m_successful, m_failed>>
pf_vars == <<pf_pc, chunks, chunk_num, successful, embedding, summary>>
run_vars == <<outcome, skipped, seen_in_store, attempted, inserted,
              insert_failed, duplicates, summary_failed, fatal, raised>>
ingest_vars == <<main_vars, pf_vars, run_vars, contents, outstanding, store,
                 other_writes>>

retrieve_vars == <<r_pc, max_results, similarity_threshold, query_embedding,
                   embed_failures,
                   data, r_failure, retrieved, r_raised, ui>>

chat_vars == <<chat_pc, client_ok, submitted, messages, sources, chat_raised,
               g_pc, g_context, g_result, g_requested, g_prompt, g_errors>>

vars == <<chunk_vars, retrieve_vars, ingest_vars, chat_vars>>

(***************************************************************************)
(* Bounds of the model.                                                     *)
(***************************************************************************)
\* Longest text over the full alphabet given to chunk_text.
MaxLen == 5
\* Texts over letters and periods only are drawn up to MaxLen + LongExtra.
LongExtra == 3
\* Largest max_chunk_size tried on the enumerated texts.
MaxSize == 6
\* Texts built from whole paragraphs have up to MaxParas paragraphs.
MaxParas == 3
\* Most candidates the store returns for one search.
MaxCand == 3
\* Largest max_results tried (the slider of app.py allows 1..10).
MaxResults == 2
\* Markdown files in ./data.
NumFiles == 2
\* Ingestion runs, one after the other, against the same store.
MaxRuns == 2
\* Rows another ingestion process writes to the same store.
MaxOther == 1

(***************************************************************************)
(* Characters and strings.                                                  *)
(***************************************************************************)
NL == "\n"
Period == "."
Alphabet == {"a", Period, " ", NL}
LongAlphabet == {"a", Period}

SeqsUpTo(S, n) == UNION {[1..k -> S] : k \in 0..n}

Max2(a, b) == IF a >= b THEN a ELSE b

\* Characters str.strip() removes (the whitespace of the model's alphabet).
IsSpace(c) == c \in {" ", NL}

\* str.strip(): the text without its leading and trailing whitespace.
strip(s) ==
    IF \A i \in 1..Len(s) : IsSpace(s[i])
    THEN <<>>
    ELSE LET lo == CHOOSE i \in 1..Len(s) :
                       /\ ~IsSpace(s[i])
                       /\ \A j \in 1..(i-1) : IsSpace(s[j])
             hi == CHOOSE i \in 1..Len(s) :
                       /\ ~IsSpace(s[i])
                       /\ \A j \in (i+1)..Len(s) : IsSpace(s[j])
         IN  SubSeq(s, lo, hi)

\* A blank-line separator starts at position i of s.
SepAt(s, i) == s[i] = NL /\ s[i+1] = NL

\* str.split("\n\n"): the pieces between the separators, found left to right
\* without overlap; a text without separator is its only piece.
RECURSIVE split(_)
split(s) ==
    IF ~\E i \in 1..(Len(s)-1) : SepAt(s, i)
    THEN <<s>>
    ELSE LET i == CHOOSE k \in 1..(Len(s)-1) :
                      /\ SepAt(s, k)
                      /\ \A j \in 1..(k-1) : ~SepAt(s, j)
         IN  <<SubSeq(s, 1, i-1)>> \o split(SubSeq(s, i+2, Len(s)))

\* "\n\n".join(parts)
RECURSIVE join(_)
join(parts) ==
    IF parts = <<>> THEN <<>>
    ELSE IF Len(parts) = 1 THEN parts[1]
    ELSE parts[1] \o <<NL, NL>> \o join(Tail(parts))

\* str.rfind("."): the 0-based index of the last period, -1 when there is none.
rfind(s) ==
    IF \A i \in 1..Len(s) : s[i] # Period
    THEN -1
    ELSE (CHOOSE i \in 1..Len(s) :
              /\ s[i] = Period
              /\ \A j \in (i+1)..Len(s) : s[j] # Period) - 1

(***************************************************************************)
(* chunk_text (ingest.py lines 45-99).                                      *)
(***************************************************************************)
\* Faulty variant of exceeds: the length of the running chunk is forgotten.
exceeds_ignores_current(current_chunk, paragraph, max) ==
    Len(paragraph) + 2 > max

\* Line 73: adding the paragraph (and the separator) would exceed the limit.
exceeds(current_chunk, paragraph, max) ==
    Len(current_chunk) + Len(paragraph) + 2 > max

\* Faulty variant of flush: the completed chunk is dropped instead of saved.
flush_drops(chunk_list, current_chunk) ==
    chunk_list

\* Lines 74-75 and 81-82: a non-empty running chunk is saved, stripped.
flush(chunk_list, current_chunk) ==
    IF current_chunk # <<>> THEN Append(chunk_list, strip(current_chunk)) ELSE chunk_list

\* Faulty variant of extend: the running chunk is overwritten by the paragraph.
extend_overwrites(current_chunk, paragraph) ==
    paragraph

\* Line 78: the paragraph joins the running chunk, after a separator when the
\* running chunk is not empty.
extend(current_chunk, paragraph) ==
    IF current_chunk # <<>>
    THEN current_chunk \o <<NL, NL>> \o paragraph
    ELSE paragraph

\* Lines 71-78: the loop over the paragraphs, from paragraph i on.
RECURSIVE pack(_, _, _, _, _)
pack(paragraphs, i, chunk_list, current_chunk, max) ==
    IF i > Len(paragraphs)
    THEN [chunks |-> chunk_list, current_chunk |-> current_chunk]
    ELSE LET paragraph == paragraphs[i] IN
         IF exceeds(current_chunk, paragraph, max)
         THEN pack(paragraphs, i+1, flush(chunk_list, current_chunk), paragraph, max)
         ELSE pack(paragraphs, i+1, chunk_list, extend(current_chunk, paragraph), max)

\* Faulty variant of truncate: the cut is made after the last period of the
\* window wherever it lies.
truncate_at_any_period(chunk, max) ==
    IF Len(chunk) > max
    THEN LET truncated == SubSeq(chunk, 1, max)
             last_period == rfind(truncated)
         IN  IF last_period >= 0
             THEN SubSeq(truncated, 1, last_period + 1)
             ELSE truncated
    ELSE chunk

\* Faulty variant of truncate: the chunk is kept whole.
truncate_keeps(chunk, max) ==
    chunk

\* Lines 89-97: a chunk longer than the limit is cut at the limit, or just
\* after the last period when that lies in the last 20% of the window.
truncate(chunk, max) ==
    IF Len(chunk) > max
    THEN LET truncated == SubSeq(chunk, 1, max)
             last_period == rfind(truncated)
         IN  IF last_period * 10 > max * 8
             THEN SubSeq(truncated, 1, last_period + 1)
             ELSE truncated
    ELSE chunk

\* Lines 65-82: the chunk_list before truncation.
packed_chunks(t, max) ==
    LET p == pack(split(t), 1, <<>>, <<>>, max)
    IN  flush(p.chunks, p.current_chunk)

\* Faulty variant of chunk_text: nothing is returned when nothing was packed.
chunk_text_no_fallback(t, max) ==
    IF Len(t) <= max
    THEN <<t>>
    ELSE LET chunk_list == packed_chunks(t, max)
         IN  [k \in 1..Len(chunk_list) |-> truncate(chunk_list[k], max)]

\* Faulty variant of chunk_text: a short text is returned stripped.
chunk_text_strips_short(t, max) ==
    IF Len(t) <= max
    THEN <<strip(t)>>
    ELSE LET chunk_list == packed_chunks(t, max)
             final == [k \in 1..Len(chunk_list) |-> truncate(chunk_list[k], max)]
         IN  IF final # <<>> THEN final ELSE <<SubSeq(t, 1, max)>>

\* chunk_text(text, max_chunk_size), for max_chunk_size > 0.
chunk_text(t, max) ==
    IF Len(t) <= max
    THEN <<t>>
    ELSE LET chunk_list == packed_chunks(t, max)
             final == [k \in 1..Len(chunk_list) |-> truncate(chunk_list[k], max)]
         IN  IF final # <<>> THEN final ELSE <<SubSeq(t, 1, max)>>

(***************************************************************************)
(* The scenario text: 4 paragraphs of 3000 characters each, separated by    *)
(* blank lines, chunked with a maximum of 5000.  Paragraph k is filled with *)
(* the k-th letter, so that the order of the paragraphs shows.              *)
(***************************************************************************)
Scenario == [paragraphs |-> 4, paragraph_len |-> 3000, max_chunk_size |-> 5000]

ScenarioLetters == <<"a", "b", "c", "d">>

\* The k-th paragraph of the scenario text.
ScenarioParagraph(k) == [i \in 1..Scenario.paragraph_len |-> ScenarioLetters[k]]

ScenarioText ==
    join([k \in 1..Scenario.paragraphs |-> ScenarioParagraph(k)])

(***************************************************************************)
(* SpecChunk: chunk_text applied once to a drawn input.                     *)
(***************************************************************************)
\* The paragraphs the longer texts are built from: plain, with a period, with
\* whitespace at an end, and empty.
ParagraphChoices == {<<"a">>, <<"a", Period>>, <<"a", " ">>, <<>>}

ParagraphTexts ==
    {join(ps) : ps \in SeqsUpTo(ParagraphChoices, MaxParas)}

ChunkTexts ==
    SeqsUpTo(Alphabet, MaxLen)
    \cup {s \in SeqsUpTo(LongAlphabet, MaxLen + LongExtra) : Len(s) > MaxLen}
    \cup ParagraphTexts

\* A limit large enough for the last 20% of the truncation window to hold
\* more than its last character, and the texts chunked with it: one paragraph,
\* two characters longer than the limit, with at most two periods anywhere.
WindowSize == 11

WindowTexts ==
    {[i \in 1..(WindowSize + 2) |-> IF i \in P THEN Period ELSE "a"] :
     P \in {Q \in SUBSET (1..(WindowSize + 2)) : Cardinality(Q) <= 2}}

(***************************************************************************)
(* The state of the parts a specification does not use.                     *)
(***************************************************************************)
\* No result yet (None).
NoResult == [kind |-> "none", of |-> <<>>]

IngestIdle ==
    /\ run = 0
    /\ m_pc = "idle"
    /\ exit_code = -1
    /\ interrupted = FALSE
    /\ must_cancel = FALSE
    /\ file_idx = 1
    /\ m_successful = 0
    /\ m_failed = 0
    /\ pf_pc = "idle"
    /\ contents = <<>>
    /\ chunks = <<>>
    /\ chunk_num = 0
    /\ successful = 0
    /\ embedding = NoResult
    /\ summary = NoResult
    /\ outstanding = {}
    /\ store = {}
    /\ other_writes = 0
    /\ outcome = <<>>
    /\ skipped = FALSE
    /\ seen_in_store = FALSE
    /\ attempted = {}
    /\ inserted = {}
    /\ insert_failed = {}
    /\ duplicates = {}
    /\ summary_failed = {}
    /\ fatal = {}
    /\ raised = "none"

\* A str value, and None.
Str(s) == [none |-> FALSE, s |-> s]
None == [none |-> TRUE, s |-> ""]

ChatIdle ==
    /\ chat_pc = "off"
    /\ client_ok = FALSE
    /\ submitted = 0
    /\ messages = <<>>
    /\ sources = <<>>
    /\ chat_raised = FALSE
    /\ g_pc = "idle"
    /\ g_context = <<>>
    /\ g_result = None
    /\ g_requested = FALSE
    /\ g_prompt = <<>>
    /\ g_errors = {}

ChunkIdle ==
    /\ chunk_pc = "idle"
    /\ text = <<>>
    /\ max_chunk_size = 1
    /\ final_chunks = <<>>

RetrieveIdle ==
    /\ r_pc = "idle"
    /\ max_results = 1
    /\ similarity_threshold = 0
    /\ query_embedding = [kind |-> "none", dim |-> 0]
    /\ embed_failures = {}
    /\ data = <<>>
    /\ r_failure = "none"
    /\ retrieved = <<>>
    /\ r_raised = FALSE
    /\ ui = <<>>

InitChunk ==
    /\ RetrieveIdle
    /\ ChatIdle
    /\ IngestIdle
    /\ chunk_pc = "call"
    /\ \/ text \in ChunkTexts /\ max_chunk_size \in 1..MaxSize
       \/ text = ScenarioText /\ max_chunk_size = Scenario.max_chunk_size
       \/ text \in WindowTexts /\ max_chunk_size = WindowSize
    /\ final_chunks = <<>>

ChunkText ==
    /\ chunk_pc = "call"
    /\ final_chunks' = chunk_text(text, max_chunk_size)
    /\ chunk_pc' = "return"
    /\ UNCHANGED <<text, max_chunk_size>>
    /\ UNCHANGED <<retrieve_vars, ingest_vars, chat_vars>>

NextChunk == ChunkText

SpecChunk == InitChunk /\ [][NextChunk]_vars

(***************************************************************************)
(* The query path (app.py).  An error text is modelled by the set of the    *)
(* markers (substrings the code looks for) it contains.                     *)
(***************************************************************************)
EmbedMarkers == {"invalid_api_key", "insufficient_quota", "billing", "rate_limit"}
RpcMarkers == {"function", "vector", "does not exist"}

\* Similarities, in thousandths, a candidate of the store may carry.
SimValues == {50, 100, 150, 300, 400}
\* Thresholds tried, in thousandths (the default is 300).
Thresholds == {300, 500}

\* A candidate row: kind "num" carries a similarity, "missing" has no
\* similarity key, "null" has a similarity that is not a number.
Candidate(i, kind, sim) == [id |-> i, kind |-> kind, similarity |-> sim]

CandidateShapes ==
    {[kind |-> "num", similarity |-> v] : v \in SimValues}
    \cup {[kind |-> "missing", similarity |-> 0], [kind |-> "null", similarity |-> 0]}

\* The lists the store may answer a search with: any rows, in any order.
StoreAnswers ==
    {[i \in 1..Len(shapes) |->
        Candidate(i, shapes[i].kind, shapes[i].similarity)] :
     shapes \in SeqsUpTo(CandidateShapes, MaxCand)}

\* list[:n]
Take(list, n) == SubSeq(list, 1, IF n <= Len(list) THEN n ELSE Len(list))

\* Lines 148-159 of get_embedding: the diagnostic shown for an error text.
embedding_diagnostic(error_msg) ==
    IF "invalid_api_key" \in error_msg THEN "embedding: invalid key"
    ELSE IF "insufficient_quota" \in error_msg \/ "billing" \in error_msg
         THEN "embedding: quota"
    ELSE IF "rate_limit" \in error_msg THEN "embedding: rate limit"
    ELSE "embedding: error"

\* Line 147: the vector the embedding service returned for the query (1536
\* numbers for the configured model).
QueryVector == [kind |-> "vector", dim |-> 1536]

\* Faulty variant of get_embedding_on_error: the failure is reported as no vector.
get_embedding_on_error_none == [kind |-> "none", dim |-> 0]

\* Line 159: what get_embedding returns when the remote call fails,
\* [0.0] * 1536.
get_embedding_on_error == [kind |-> "zeros", dim |-> 1536]

\* Lines 206-222: the diagnostic shown for an error text of the RPC.
rpc_diagnostic(error_msg) ==
    IF "function" \in error_msg /\ "does not exist" \in error_msg
    THEN "rpc: no function"
    ELSE IF "vector" \in error_msg /\ "does not exist" \in error_msg
         THEN "rpc: no pgvector"
    ELSE "rpc: error"

\* doc.get("similarity", 0)
similarity_of(doc) == IF doc.kind = "num" THEN doc.similarity ELSE 0

\* Line 234 raises (a TypeError) when a similarity is not a number.
filter_raises(rows) == \E k \in 1..Len(rows) : rows[k].kind = "null"

\* Faulty variant of filtered_of: a candidate at the threshold is dropped.
filtered_of_strict(rows, threshold) ==
    SelectSeq(rows, LAMBDA doc : similarity_of(doc) > threshold)

\* Lines 232-235: the candidates at or above the threshold, in store order.
filtered_of(rows, threshold) ==
    SelectSeq(rows, LAMBDA doc : similarity_of(doc) >= threshold)

\* Faulty variant of select_results: the fallback returns nothing.
select_results_no_fallback(rows, threshold, max) ==
    Take(filtered_of(rows, threshold), max)

\* Lines 225-246: what is returned for a non-failing search.
select_results(rows, threshold, max) ==
    IF rows = <<>> THEN <<>>
    ELSE IF filtered_of(rows, threshold) = <<>> /\ rows # <<>>
         THEN Take(rows, 2)
    ELSE Take(filtered_of(rows, threshold), max)

\* Faulty variant of on_rpc_error: the error of the search is raised to the caller.
on_rpc_error_raises == [retrieved |-> <<>>, raised |-> TRUE]

\* Lines 206-223: a failing search returns the empty list.
on_rpc_error == [retrieved |-> <<>>, raised |-> FALSE]

\* Faulty variant of on_unexpected_error: the error is raised to the caller.
on_unexpected_error_raises == [retrieved |-> <<>>, raised |-> TRUE]

\* Lines 248-251: any other exception inside retrieval returns the empty list.
on_unexpected_error == [retrieved |-> <<>>, raised |-> FALSE]

InitRetrieve ==
    /\ ChunkIdle
    /\ ChatIdle
    /\ IngestIdle
    /\ r_pc = "embed"
    /\ max_results \in 1..MaxResults
    /\ similarity_threshold \in Thresholds
    /\ query_embedding = [kind |-> "none", dim |-> 0]
    /\ embed_failures = {}
    /\ data = <<>>
    /\ r_failure = "none"
    /\ retrieved = <<>>
    /\ r_raised = FALSE
    /\ ui = <<>>

\* Line 190, get_embedding lines 143-147: the query is embedded.
RetrieveEmbedOk ==
    /\ r_pc = "embed"
    /\ query_embedding' = QueryVector
    /\ r_pc' = "search"
    /\ UNCHANGED <<max_results, similarity_threshold, data, r_failure,
                   retrieved, r_raised, ui, embed_failures>>
    /\ UNCHANGED <<chunk_vars, ingest_vars, chat_vars>>

\* Line 190, get_embedding lines 148-159: the embedding call fails; a
\* diagnostic is shown and get_embedding returns, the retrieval goes on.
RetrieveEmbedFail ==
    /\ r_pc = "embed"
    /\ \E error_msg \in SUBSET EmbedMarkers :
          /\ ui' = Append(ui, embedding_diagnostic(error_msg))
          /\ embed_failures' = embed_failures \cup {error_msg}
    /\ query_embedding' = get_embedding_on_error
    /\ r_pc' = "search"
    /\ UNCHANGED <<max_results, similarity_threshold, data, r_failure,
                   retrieved, r_raised>>
    /\ UNCHANGED <<chunk_vars, ingest_vars, chat_vars>>

\* Lines 195-205 and 225-251: the store answers the search; the rows are
\* filtered and the result returned.
RetrieveSearchOk ==
    /\ r_pc = "search"
    /\ \E rows \in StoreAnswers :
          /\ data' = rows
          /\ IF rows # <<>> /\ filter_raises(rows)
             THEN /\ r_failure' = "filter"
                  /\ retrieved' = on_unexpected_error.retrieved
                  /\ r_raised' = on_unexpected_error.raised
             ELSE /\ r_failure' = "none"
                  /\ retrieved' = select_results(rows, similarity_threshold, max_results)
                  /\ r_raised' = FALSE
    /\ r_pc' = "done"
    /\ UNCHANGED <<max_results, similarity_threshold, query_embedding, ui,
                   embed_failures>>
    /\ UNCHANGED <<chunk_vars, ingest_vars, chat_vars>>

\* Lines 206-223: the search fails; a diagnostic is shown, [] is returned.
RetrieveSearchFail ==
    /\ r_pc = "search"
    /\ \E error_msg \in SUBSET RpcMarkers :
          ui' = Append(ui, rpc_diagnostic(error_msg))
    /\ r_failure' = "rpc"
    /\ retrieved' = on_rpc_error.retrieved
    /\ r_raised' = on_rpc_error.raised
    /\ r_pc' = "done"
    /\ UNCHANGED <<max_results, similarity_threshold, query_embedding, data,
                   embed_failures>>
    /\ UNCHANGED <<chunk_vars, ingest_vars, chat_vars>>

NextRetrieve ==
    \/ RetrieveEmbedOk
    \/ RetrieveEmbedFail
    \/ RetrieveSearchOk
    \/ RetrieveSearchFail

SpecRetrieve == InitRetrieve /\ [][NextRetrieve]_vars

(***************************************************************************)
(* SpecChat: generate_response (app.py lines 254-326), called alone on a    *)
(* drawn context, or by the chat flow of main (lines 422-500), one turn     *)
(* after the other.  A text is identified by what it says; the text of a    *)
(* completion is "answer", or "" when the model returned an empty text, or  *)
(* None (message.content is optional).                                      *)
(***************************************************************************)
\* Most prompts submitted in one session.
MaxTurns == 2

GenMarkers ==
    {"invalid_api_key", "insufficient_quota", "billing", "rate_limit",
     "model", "not found"}

\* Line 271: the message returned without context.
NoInformation == "could not find relevant information in the knowledge base"

\* Line 498: the message the chat flow records when nothing was retrieved.
NothingFound == "could not find relevant information"

\* What the completion call can do: return a text, an empty text or no text,
\* or fail with an error text.
Completions ==
    {[ok |-> TRUE, content |-> c, error_msg |-> {}] :
        c \in {Str("answer"), Str(""), None}}
    \cup {[ok |-> FALSE, content |-> None, error_msg |-> e] :
        e \in SUBSET GenMarkers}

\* Faulty variant of needs_completion: the model is asked even without context.
needs_completion_always(context_documents) ==
    TRUE

\* Line 270: if not context_documents: return ...
needs_completion(context_documents) ==
    context_documents # <<>>

\* Faulty variant of generation_error: the rate limit is looked for before the quota.
generation_error_rate_first(error_msg) ==
    IF "invalid_api_key" \in error_msg THEN "error: invalid key"
    ELSE IF "rate_limit" \in error_msg THEN "error: rate limit"
    ELSE IF "insufficient_quota" \in error_msg \/ "billing" \in error_msg
         THEN "error: quota"
    ELSE IF "model" \in error_msg /\ "not found" \in error_msg
         THEN "error: model not found"
    ELSE "error: generating response"

\* Lines 314-326: the text returned for an error text of the completion call.
generation_error(error_msg) ==
    IF "invalid_api_key" \in error_msg THEN "error: invalid key"
    ELSE IF "insufficient_quota" \in error_msg \/ "billing" \in error_msg
         THEN "error: quota"
    ELSE IF "rate_limit" \in error_msg THEN "error: rate limit"
    ELSE IF "model" \in error_msg /\ "not found" \in error_msg
         THEN "error: model not found"
    ELSE "error: generating response"

\* int(x): the integer part, cut towards zero.
int_div(n, d) == IF n >= 0 THEN n \div d ELSE -((-n) \div d)

\* Line 279: int(doc.get("similarity", 0) * 100), for a similarity that is a
\* number or absent (retrieve_relevant_documents returns no other).
similarity_pct(doc) == int_div(similarity_of(doc), 10)

\* The columns of a row, named after the row that holds them.
field_of(doc, column) == [column |-> column, row |-> doc.id]

\* Lines 280-286: the entry of document number i in the context.
context_entry(i, doc) ==
    [number |-> i,
     relevance |-> similarity_pct(doc),
     title |-> field_of(doc, "title"),
     summary |-> field_of(doc, "summary"),
     content |-> field_of(doc, "content")]

\* Faulty variant of build_context: the documents are numbered from 0.
build_context_from_zero(context_documents) ==
    [i \in 1..Len(context_documents) |->
        context_entry(i - 1, context_documents[i])]

\* Lines 277-288: the entries of the context, joined in the order of
\* enumerate(context_documents, 1).
build_context(context_documents) ==
    [i \in 1..Len(context_documents) |-> context_entry(i, context_documents[i])]

\* generate_response(openai_client, query, context_documents), given what the
\* completion call does when it is made: the value returned, whether the
\* call was made, and the context of the system prompt it was made with.
generate_response(context_documents, completion) ==
    IF ~needs_completion(context_documents)
    THEN [value |-> Str(NoInformation), requested |-> FALSE, context |-> <<>>]
    ELSE IF completion.ok
         THEN [value |-> completion.content, requested |-> TRUE,
               context |-> build_context(context_documents)]
    ELSE [value |-> Str(generation_error(completion.error_msg)),
          requested |-> TRUE, context |-> build_context(context_documents)]

\* What the store does on the search of a turn: it fails, or answers rows.
ChatRows ==
    { <<>>,
      <<Candidate(1, "num", 50)>>,
      <<Candidate(1, "num", 400)>>,
      <<Candidate(1, "num", 50), Candidate(2, "num", 400)>>,
      <<Candidate(1, "num", 305), Candidate(2, "num", 299)>>,
      <<Candidate(1, "num", -5)>>,
      <<Candidate(1, "missing", 0)>>,
      <<Candidate(1, "num", 400), Candidate(2, "null", 0)>> }

\* The lists generate_response is called with: those
\* retrieve_relevant_documents can return (line 234 has compared every
\* similarity with the threshold).
ContextLists == {rows \in ChatRows : ~filter_raises(rows)}

SearchOutcomes ==
    {[failed |-> TRUE, rows |-> <<>>]}
    \cup {[failed |-> FALSE, rows |-> rows] : rows \in ChatRows}

\* retrieve_relevant_documents lines 187-251: the list returned for what the
\* search did (a failing embedding changes nothing in it, lines 148-159).
retrieve_relevant_documents(search, threshold, max) ==
    IF search.failed THEN on_rpc_error.retrieved
    ELSE IF search.rows # <<>> /\ filter_raises(search.rows)
         THEN on_unexpected_error.retrieved
    ELSE select_results(search.rows, threshold, max)

Message(role, content, n_sources) ==
    [role |-> role, content |-> content, sources |-> n_sources]

InitChat ==
    /\ ChunkIdle
    /\ RetrieveIdle
    /\ IngestIdle
    /\ submitted = 0
    /\ messages = <<>>
    /\ sources = <<>>
    /\ chat_raised = FALSE
    /\ g_result = None
    /\ g_requested = FALSE
    /\ g_prompt = <<>>
    /\ g_errors = {}
    /\ \/ /\ chat_pc = "input"
          /\ client_ok \in BOOLEAN
          /\ g_pc = "idle"
          /\ g_context = <<>>
       \/ /\ chat_pc = "off"
          /\ client_ok = TRUE
          /\ g_pc = "call"
          /\ g_context \in ContextLists

\* Lines 270-271: without context the fixed message is returned.
GenerateNoContext ==
    /\ g_pc = "call"
    /\ ~needs_completion(g_context)
    /\ \E completion \in Completions :
          /\ g_result' = generate_response(g_context, completion).value
          /\ g_requested' = generate_response(g_context, completion).requested
          /\ g_prompt' = generate_response(g_context, completion).context
    /\ g_pc' = "returned"
    /\ UNCHANGED <<chat_pc, client_ok, submitted, messages, sources,
                   chat_raised, g_context, g_errors>>
    /\ UNCHANGED <<chunk_vars, retrieve_vars, ingest_vars>>

\* Lines 273-313: the completion model is asked and answers.
GenerateOk ==
    /\ g_pc = "call"
    /\ needs_completion(g_context)
    /\ \E completion \in Completions :
          /\ completion.ok
          /\ g_result' = generate_response(g_context, completion).value
          /\ g_requested' = generate_response(g_context, completion).requested
          /\ g_prompt' = generate_response(g_context, completion).context
    /\ g_pc' = "returned"
    /\ UNCHANGED <<chat_pc, client_ok, submitted, messages, sources,
                   chat_raised, g_context, g_errors>>
    /\ UNCHANGED <<chunk_vars, retrieve_vars, ingest_vars>>

\* Lines 302-326: the completion call fails; an error text is returned.
GenerateFail ==
    /\ g_pc = "call"
    /\ needs_completion(g_context)
    /\ \E completion \in Completions :
          /\ ~completion.ok
          /\ g_result' = generate_response(g_context, completion).value
          /\ g_requested' = generate_response(g_context, completion).requested
          /\ g_prompt' = generate_response(g_context, completion).context
          /\ g_errors' = {completion.error_msg}
    /\ g_pc' = "returned"
    /\ UNCHANGED <<chat_pc, client_ok, submitted, messages, sources,
                   chat_raised, g_context>>
    /\ UNCHANGED <<chunk_vars, retrieve_vars, ingest_vars>>

\* Lines 422-437: a prompt is submitted without an OpenAI client; an error is
\* shown and the script stops (st.stop()).
ChatStop ==
    /\ chat_pc = "input"
    /\ submitted < MaxTurns
    /\ ~client_ok
    /\ submitted' = submitted + 1
    /\ UNCHANGED <<chat_pc, client_ok, messages, sources, chat_raised,
                   g_pc, g_context, g_result, g_requested, g_prompt, g_errors>>
    /\ UNCHANGED <<chunk_vars, retrieve_vars, ingest_vars>>

\* Lines 422-447: a prompt is submitted; the user turn is appended.
ChatSubmit ==
    /\ chat_pc = "input"
    /\ submitted < MaxTurns
    /\ client_ok
    /\ submitted' = submitted + 1
    /\ messages' = Append(messages, Message("user", "prompt", 0))
    /\ sources' = <<>>
    /\ chat_raised' = FALSE
    /\ g_pc' = "idle"
    /\ g_context' = <<>>
    /\ g_result' = None
    /\ g_requested' = FALSE
    /\ g_prompt' = <<>>
    /\ g_errors' = {}
    /\ chat_pc' = "retrieve"
    /\ UNCHANGED client_ok
    /\ UNCHANGED <<chunk_vars, retrieve_vars, ingest_vars>>

\* Lines 450-478 and 493-500: the documents are retrieved; with sources
\* generate_response is called, without the fixed assistant turn is appended.
ChatRetrieved ==
    /\ chat_pc = "retrieve"
    /\ \E search \in SearchOutcomes, threshold \in Thresholds,
          max \in 1..MaxResults :
          LET found == retrieve_relevant_documents(search, threshold, max) IN
          /\ sources' = found
          /\ IF found # <<>>
             THEN /\ g_context' = found
                  /\ g_pc' = "call"
                  /\ chat_pc' = "generate"
                  /\ UNCHANGED messages
             ELSE /\ messages' = Append(messages,
                                        Message("assistant", NothingFound, 0))
                  /\ chat_pc' = "input"
                  /\ UNCHANGED <<g_context, g_pc>>
    /\ UNCHANGED <<client_ok, submitted, chat_raised, g_result, g_requested,
                   g_prompt, g_errors>>
    /\ UNCHANGED <<chunk_vars, retrieve_vars, ingest_vars>>

\* Lines 474-492: generate_response has returned; len(response) raises when
\* the response is None, otherwise the assistant turn is appended.
ChatAnswer ==
    /\ chat_pc = "generate"
    /\ g_pc = "returned"
    /\ IF g_result.none
       THEN /\ chat_raised' = TRUE
            /\ UNCHANGED messages
       ELSE /\ messages' = Append(messages,
                                  Message("assistant", g_result.s, Len(sources)))
            /\ UNCHANGED chat_raised
    /\ chat_pc' = "input"
    /\ UNCHANGED <<client_ok, submitted, sources, g_pc, g_context, g_result,
                   g_requested, g_prompt, g_errors>>
    /\ UNCHANGED <<chunk_vars, retrieve_vars, ingest_vars>>

NextChat ==
    \/ GenerateNoContext
    \/ GenerateOk
    \/ GenerateFail
    \/ ChatStop
    \/ ChatSubmit
    \/ ChatRetrieved
    \/ ChatAnswer

SpecChat == InitChat /\ [][NextChat]_vars

(***************************************************************************)
(* Ingestion (ingest.py).  A file is named by its index in markdown_files;  *)
(* its url is that index.  The store keeps site_pages as a set of rows and  *)
(* rejects an insert whose (url, chunk_number) it already holds.            *)
(***************************************************************************)
\* config.py line 41: MAX_CHUNK_SIZE is read from the environment (default
\* 8000); the ingestion runs here with MAX_CHUNK_SIZE=4, so that the short
\* files below have one or two chunks.
MAX_CHUNK_SIZE == 4

Files == 1..NumFiles

\* The texts a file of ./data may hold: two paragraphs (two chunks), or
\* whitespace only (skipped as empty).
FileTexts ==
    { <<"a", "a", NL, NL, "b", "b">>, <<" ">> }

\* What the embedding service returns for a text.
VectorOf(t) == [kind |-> "vector", of |-> t]

\* What the completion service returns as the summary of a text.
SummaryOf(t) == [kind |-> "summary", of |-> t]

\* Lines 170 and 192: "Content summary unavailable".
SummaryUnavailable == [kind |-> "unavailable", of |-> <<>>]

Request(kind, f, c) == [kind |-> kind, file |-> f, chunk |-> c]

\* Faulty variant of Row: every row is numbered 0.
Row_unnumbered(f, c, chunk, emb, summ) ==
    [url |-> f, chunk_number |-> 0, content |-> chunk,
     embedding |-> emb, summary |-> summ]

\* Lines 297-311: the row prepared for a chunk.
Row(f, c, chunk, emb, summ) ==
    [url |-> f, chunk_number |-> c, content |-> chunk,
     embedding |-> emb, summary |-> summ]

RowsOf(rows, f) == {r \in rows : r.url = f}

HasKey(rows, f, c) == \E r \in rows : r.url = f /\ r.chunk_number = c

\* The unique constraint of site_pages on (url, chunk_number): the store
\* takes a row only when it holds none with the same key.
store_accepts(rows, f, c) == ~HasKey(rows, f, c)

\* Error texts of the remote calls of ingestion, each the set of the markers
\* it contains.
EmbeddingErrors ==
    { {}, {"invalid_api_key"}, {"incorrect api key"}, {"insufficient_quota"},
      {"billing"}, {"rate_limit"}, {"model"}, {"model", "not found"},
      {"rate_limit", "billing"} }
SelectErrors ==
    { {}, {"relation"}, {"relation", "does not exist"}, {"permission denied"},
      {"row-level security"} }
InsertErrors ==
    { {}, {"permission denied"} }
DuplicateErrors ==
    { {"duplicate key"}, {"unique constraint"}, {"duplicate key", "unique constraint"} }

\* get_embedding lines 121-148: the ValueError raised for an error text.
ingest_embedding_error(error_msg) ==
    IF "invalid_api_key" \in error_msg \/ "incorrect api key" \in error_msg
    THEN "embedding: invalid key"
    ELSE IF "insufficient_quota" \in error_msg \/ "billing" \in error_msg
         THEN "embedding: quota"
    ELSE IF "rate_limit" \in error_msg THEN "embedding: rate limit"
    ELSE IF "model" \in error_msg /\ "not found" \in error_msg
         THEN "embedding: model not found"
    ELSE "embedding: error"

\* process_file lines 265-279: the ValueError raised when the check fails.
select_error(error_msg) ==
    IF "relation" \in error_msg /\ "does not exist" \in error_msg
    THEN "select: no table"
    ELSE IF "permission denied" \in error_msg \/ "row-level security" \in error_msg
         THEN "select: permission denied"
    ELSE "select: error"

\* process_file lines 318-330: how the error text of an insert is handled.
insert_error(error_msg) ==
    IF "duplicate key" \in error_msg \/ "unique constraint" \in error_msg
    THEN "duplicate"
    ELSE IF "permission denied" \in error_msg
         THEN "insert: permission denied"
    ELSE "insert: error"

\* Faulty variant of already_processed: the check for existing rows finds nothing.
already_processed_never(rows, f) ==
    FALSE

\* process_file lines 256-262: the store holds a row with the file's url.
already_processed(rows, f) ==
    RowsOf(rows, f) # {}

\* A vector of zeros, which no call of the embedding service returns.
ZeroVector == [kind |-> "zeros", of |-> <<>>]

\* Faulty variant of ingest_embedding_on_error: a vector of zeros stands in.
ingest_embedding_on_error_zeros == "zeros"

\* get_embedding lines 121-148: every branch of the handler raises a
\* ValueError; no vector is returned for a failed call.
ingest_embedding_on_error == "raise"

\* Faulty variant of count_duplicate: a rejected duplicate is not counted.
count_duplicate_not(n_successful) ==
    n_successful

\* process_file line 322: a chunk the store already holds counts as a success.
count_duplicate(n_successful) ==
    n_successful + 1

\* Faulty variant of get_summary_on_error: the failure is raised.
get_summary_on_error_raises ==
    [kind |-> "raised", of |-> <<>>]

\* get_summary lines 187-192: what get_summary returns when the call fails.
get_summary_on_error ==
    SummaryUnavailable

\* Faulty variant of file_result: a file counts as successful only when every chunk
\* was persisted.
file_result_all(n_successful, n_chunks) ==
    n_successful = n_chunks

\* process_file line 344
file_result(n_successful, n_chunks) ==
    n_successful > 0

\* A fresh process: nothing has happened in the run yet.
RunReset ==
    /\ exit_code' = -1
    /\ interrupted' = FALSE
    /\ must_cancel' = FALSE
    /\ file_idx' = 1
    /\ m_successful' = 0
    /\ m_failed' = 0
    /\ pf_pc' = "idle"
    /\ chunks' = <<>>
    /\ chunk_num' = 0
    /\ successful' = 0
    /\ embedding' = NoResult
    /\ summary' = NoResult
    /\ outstanding' = {}
    /\ outcome' = [f \in Files |-> "none"]
    /\ skipped' = FALSE
    /\ seen_in_store' = FALSE
    /\ attempted' = {}
    /\ inserted' = {}
    /\ insert_failed' = {}
    /\ duplicates' = {}
    /\ summary_failed' = {}
    /\ fatal' = {}
    /\ raised' = "none"

Init ==
    /\ ChunkIdle
    /\ RetrieveIdle
    /\ ChatIdle
    /\ run = 1
    /\ m_pc = "startup"
    /\ exit_code = -1
    /\ interrupted = FALSE
    /\ must_cancel = FALSE
    /\ file_idx = 1
    /\ m_successful = 0
    /\ m_failed = 0
    /\ pf_pc = "idle"
    /\ contents \in [Files -> FileTexts]
    /\ chunks = <<>>
    /\ chunk_num = 0
    /\ successful = 0
    /\ embedding = NoResult
    /\ summary = NoResult
    /\ outstanding = {}
    /\ store = {}
    /\ other_writes = 0
    /\ outcome = [f \in Files |-> "none"]
    /\ skipped = FALSE
    /\ seen_in_store = FALSE
    /\ attempted = {}
    /\ inserted = {}
    /\ insert_failed = {}
    /\ duplicates = {}
    /\ summary_failed = {}
    /\ fatal = {}
    /\ raised = "none"

\* The process ends: the locals of process_file and what was recorded of its
\* last call go with it.
ProcessGone ==
    /\ chunks' = <<>>
    /\ chunk_num' = 0
    /\ successful' = 0
    /\ embedding' = NoResult
    /\ summary' = NoResult
    /\ skipped' = FALSE
    /\ seen_in_store' = FALSE
    /\ attempted' = {}
    /\ inserted' = {}
    /\ insert_failed' = {}
    /\ duplicates' = {}
    /\ summary_failed' = {}
    /\ raised' = "none"

\* process_file returns ok to main's loop (lines 381-386): the file is
\* counted and the loop moves on to the next file.
PfReturn(ok) ==
    /\ outcome' = [outcome EXCEPT ![file_idx] = IF ok THEN "true" ELSE "false"]
    /\ m_successful' = IF ok THEN m_successful + 1 ELSE m_successful
    /\ m_failed' = IF ok THEN m_failed ELSE m_failed + 1
    /\ file_idx' = file_idx + 1
    /\ pf_pc' = "idle"
    /\ chunks' = <<>>
    /\ chunk_num' = 0
    /\ successful' = 0
    /\ embedding' = NoResult
    /\ summary' = NoResult

\* __main__ lines 413-448: the environment, the clients and the connections
\* are validated; main starts.
StartupOk ==
    /\ m_pc = "startup"
    /\ m_pc' = "loop"
    /\ UNCHANGED <<run, exit_code, interrupted, must_cancel, file_idx,
                   m_successful, m_failed>>
    /\ UNCHANGED <<pf_vars, run_vars, contents, outstanding, store, other_writes>>
    /\ UNCHANGED <<chunk_vars, retrieve_vars, chat_vars>>

\* __main__ lines 417-447: a validation fails, sys.exit(1).
StartupFail ==
    /\ m_pc = "startup"
    /\ m_pc' = "exited"
    /\ exit_code' = 1
    /\ UNCHANGED <<run, interrupted, must_cancel, file_idx, m_successful,
                   m_failed>>
    /\ UNCHANGED <<pf_vars, run_vars, contents, outstanding, store, other_writes>>
    /\ UNCHANGED <<chunk_vars, retrieve_vars, chat_vars>>

\* main line 382, process_file lines 236-249: the next file is read; an empty
\* file is skipped (process_file returns False).
ProcessFileStart ==
    /\ m_pc = "loop"
    /\ pf_pc = "idle"
    /\ file_idx <= NumFiles
    /\ IF strip(contents[file_idx]) = <<>>
       THEN PfReturn(FALSE)
       ELSE /\ pf_pc' = "check"
            /\ UNCHANGED <<file_idx, m_successful, m_failed, outcome, chunks,
                           chunk_num, successful, embedding, summary>>
    /\ skipped' = FALSE
    /\ seen_in_store' = FALSE
    /\ attempted' = {}
    /\ inserted' = {}
    /\ insert_failed' = {}
    /\ duplicates' = {}
    /\ summary_failed' = {}
    /\ raised' = "none"
    /\ UNCHANGED <<run, m_pc, exit_code, interrupted, must_cancel, fatal>>
    /\ UNCHANGED <<contents, outstanding, store, other_writes>>
    /\ UNCHANGED <<chunk_vars, retrieve_vars, chat_vars>>

\* process_file lines 255-264 and 281-286: the store answers the check; a
\* file with a row is reported as already there (True), another is chunked.
CheckExistingOk ==
    /\ m_pc = "loop"
    /\ pf_pc = "check"
    /\ seen_in_store' = (RowsOf(store, file_idx) # {})
    /\ IF already_processed(store, file_idx)
       THEN /\ skipped' = TRUE
            /\ PfReturn(TRUE)
       ELSE /\ chunks' = chunk_text(contents[file_idx], MAX_CHUNK_SIZE)
            /\ chunk_num' = 0
            /\ successful' = 0
            /\ pf_pc' = "chunk"
            /\ UNCHANGED <<skipped, file_idx, m_successful, m_failed, outcome,
                           embedding, summary>>
    /\ UNCHANGED <<run, m_pc, exit_code, interrupted, must_cancel>>
    /\ UNCHANGED <<attempted, inserted, insert_failed, fatal, raised>>
    /\ UNCHANGED <<duplicates, summary_failed>>
    /\ UNCHANGED <<contents, outstanding, store, other_writes>>
    /\ UNCHANGED <<chunk_vars, retrieve_vars, chat_vars>>

\* process_file lines 265-279 and 346-348: the check fails; the ValueError
\* raised is caught at the end of process_file, which returns False.
CheckExistingFail ==
    /\ m_pc = "loop"
    /\ pf_pc = "check"
    /\ \E error_msg \in SelectErrors : raised' = select_error(error_msg)
    /\ fatal' = fatal \cup {file_idx}
    /\ PfReturn(FALSE)
    /\ UNCHANGED <<run, m_pc, exit_code, interrupted, must_cancel>>
    /\ UNCHANGED <<skipped, seen_in_store, attempted, inserted, insert_failed>>
    /\ UNCHANGED <<duplicates, summary_failed>>
    /\ UNCHANGED <<contents, outstanding, store, other_writes>>
    /\ UNCHANGED <<chunk_vars, retrieve_vars, chat_vars>>

\* process_file lines 287-294: the embedding and the summary of the chunk are
\* requested together (asyncio.gather).
GatherStart ==
    /\ m_pc = "loop"
    /\ ~must_cancel
    /\ pf_pc = "chunk"
    /\ chunk_num < Len(chunks)
    /\ outstanding' = outstanding \cup
           {Request("embedding", file_idx, chunk_num),
            Request("summary", file_idx, chunk_num)}
    /\ attempted' = attempted \cup {chunk_num}
    /\ embedding' = NoResult
    /\ summary' = NoResult
    /\ pf_pc' = "gather"
    /\ UNCHANGED <<main_vars, chunks, chunk_num, successful>>
    /\ UNCHANGED <<outcome, skipped, seen_in_store, inserted, insert_failed,
                   fatal, raised>>
    /\ UNCHANGED <<duplicates, summary_failed>>
    /\ UNCHANGED <<contents, store, other_writes>>
    /\ UNCHANGED <<chunk_vars, retrieve_vars, chat_vars>>

\* The request belongs to the gather process_file is waiting for.
Awaited(req) ==
    /\ pf_pc = "gather"
    /\ req.file = file_idx
    /\ req.chunk = chunk_num

\* get_embedding lines 116-120: the embedding service answers.
EmbeddingOk ==
    /\ m_pc = "loop"
    /\ \E req \in outstanding :
          /\ req.kind = "embedding"
          /\ Awaited(req)
          /\ outstanding' = outstanding \ {req}
          /\ embedding' = VectorOf(chunks[chunk_num + 1])
    /\ UNCHANGED <<main_vars, pf_pc, chunks, chunk_num, successful, summary>>
    /\ UNCHANGED <<run_vars, contents, store, other_writes>>
    /\ UNCHANGED <<chunk_vars, retrieve_vars, chat_vars>>

\* get_embedding lines 121-148, process_file lines 335-337 and 346-348: the
\* embedding call fails; the ValueError leaves the gather (the summary request
\* is not cancelled), is re-raised by the chunk loop and caught at the end of
\* process_file, which returns False.
EmbeddingFail ==
    /\ m_pc = "loop"
    /\ \E req \in outstanding :
          /\ req.kind = "embedding"
          /\ Awaited(req)
          /\ outstanding' = outstanding \ {req}
    /\ IF ingest_embedding_on_error = "raise"
       THEN /\ \E error_msg \in EmbeddingErrors :
                  raised' = ingest_embedding_error(error_msg)
            /\ fatal' = fatal \cup {file_idx}
            /\ PfReturn(FALSE)
       ELSE /\ embedding' = ZeroVector
            /\ UNCHANGED <<raised, fatal, file_idx, m_successful, m_failed,
                           outcome, pf_pc, chunks, chunk_num, successful,
                           summary>>
    /\ UNCHANGED <<run, m_pc, exit_code, interrupted, must_cancel>>
    /\ UNCHANGED <<skipped, seen_in_store, attempted, inserted, insert_failed>>
    /\ UNCHANGED <<duplicates, summary_failed>>
    /\ UNCHANGED <<contents, store, other_writes>>
    /\ UNCHANGED <<chunk_vars, retrieve_vars, chat_vars>>

\* The event loop takes the answers of the requests while process_file is
\* suspended: in the gather of line 291 or the sleep of line 333.
LoopRuns == pf_pc \in {"gather", "sleep"}

\* get_summary lines 177-186: the completion service answers.
SummaryOk ==
    /\ m_pc = "loop"
    /\ LoopRuns
    /\ \E req \in outstanding :
          /\ req.kind = "summary"
          /\ outstanding' = outstanding \ {req}
          /\ summary' = IF Awaited(req)
                        THEN SummaryOf(chunks[chunk_num + 1])
                        ELSE summary
    /\ UNCHANGED <<main_vars, pf_pc, chunks, chunk_num, successful, embedding>>
    /\ UNCHANGED <<run_vars, contents, store, other_writes>>
    /\ UNCHANGED <<chunk_vars, retrieve_vars, chat_vars>>

\* get_summary lines 187-192: the completion call fails; the sentinel is
\* returned.
SummaryFail ==
    /\ m_pc = "loop"
    /\ LoopRuns
    /\ \E req \in outstanding :
          /\ req.kind = "summary"
          /\ outstanding' = outstanding \ {req}
          /\ summary' = IF Awaited(req) THEN get_summary_on_error ELSE summary
          /\ summary_failed' = IF Awaited(req)
                               THEN summary_failed \cup {chunk_num}
                               ELSE summary_failed
    /\ UNCHANGED <<main_vars, pf_pc, chunks, chunk_num, successful, embedding>>
    /\ UNCHANGED <<outcome, skipped, seen_in_store, attempted, inserted,
                   insert_failed, duplicates, fatal, raised>>
    /\ UNCHANGED <<contents, store, other_writes>>
    /\ UNCHANGED <<chunk_vars, retrieve_vars, chat_vars>>

\* Faulty variant of Joined: the gather returns as soon as the embedding is in.
Joined_embedding_only ==
    /\ pf_pc = "gather"
    /\ embedding # NoResult

\* Both results of the gather are in (line 291 returns).
Joined ==
    /\ pf_pc = "gather"
    /\ embedding # NoResult
    /\ summary # NoResult

\* process_file lines 296-317: the row is inserted.
InsertOk ==
    /\ m_pc = "loop"
    /\ Joined
    /\ store_accepts(store, file_idx, chunk_num)
    /\ store' = store \cup
           {Row(file_idx, chunk_num, chunks[chunk_num + 1], embedding, summary)}
    /\ inserted' = inserted \cup {chunk_num}
    /\ successful' = successful + 1
    /\ pf_pc' = "sleep"
    /\ UNCHANGED <<main_vars, chunks, chunk_num, embedding, summary>>
    /\ UNCHANGED <<outcome, skipped, seen_in_store, attempted, insert_failed,
                   fatal, raised>>
    /\ UNCHANGED <<duplicates, summary_failed>>
    /\ UNCHANGED <<contents, outstanding, other_writes>>
    /\ UNCHANGED <<chunk_vars, retrieve_vars, chat_vars>>

\* process_file lines 318-322: the store rejects the row as a duplicate; the
\* chunk is counted as successful.
InsertDuplicate ==
    /\ m_pc = "loop"
    /\ Joined
    /\ ~store_accepts(store, file_idx, chunk_num)
    /\ \E error_msg \in DuplicateErrors : insert_error(error_msg) = "duplicate"
    /\ duplicates' = duplicates \cup {chunk_num}
    /\ successful' = count_duplicate(successful)
    /\ pf_pc' = "sleep"
    /\ UNCHANGED <<main_vars, chunks, chunk_num, embedding, summary>>
    /\ UNCHANGED <<outcome, skipped, seen_in_store, attempted, inserted,
                   insert_failed, summary_failed, fatal, raised>>
    /\ UNCHANGED <<contents, outstanding, store, other_writes>>
    /\ UNCHANGED <<chunk_vars, retrieve_vars, chat_vars>>

\* process_file lines 318-330, 335-337 and 346-348: the insert fails for
\* another reason; the ValueError raised is re-raised by the chunk loop and
\* caught at the end of process_file, which returns False.
InsertFail ==
    /\ m_pc = "loop"
    /\ Joined
    /\ \E error_msg \in InsertErrors :
          /\ insert_error(error_msg) # "duplicate"
          /\ raised' = insert_error(error_msg)
          /\ IF insert_error(error_msg) = "insert: permission denied"
             THEN /\ fatal' = fatal \cup {file_idx}
                  /\ UNCHANGED insert_failed
             ELSE /\ insert_failed' = insert_failed \cup {chunk_num}
                  /\ UNCHANGED fatal
    /\ PfReturn(FALSE)
    /\ UNCHANGED <<run, m_pc, exit_code, interrupted, must_cancel>>
    /\ UNCHANGED <<skipped, seen_in_store, attempted, inserted>>
    /\ UNCHANGED <<duplicates, summary_failed>>
    /\ UNCHANGED <<contents, outstanding, store, other_writes>>
    /\ UNCHANGED <<chunk_vars, retrieve_vars, chat_vars>>

\* process_file lines 332-333 and 343-344: after the pause the loop goes to
\* the next chunk, or process_file returns successful > 0.
SleepDone ==
    /\ m_pc = "loop"
    /\ ~must_cancel
    /\ pf_pc = "sleep"
    /\ IF chunk_num + 1 < Len(chunks)
       THEN /\ chunk_num' = chunk_num + 1
            /\ pf_pc' = "chunk"
            /\ UNCHANGED <<file_idx, m_successful, m_failed, outcome, chunks,
                           successful, embedding, summary>>
       ELSE PfReturn(file_result(successful, Len(chunks)))
    /\ UNCHANGED <<run, m_pc, exit_code, interrupted, must_cancel>>
    /\ UNCHANGED <<skipped, seen_in_store, attempted, inserted, insert_failed,
                   fatal, raised>>
    /\ UNCHANGED <<duplicates, summary_failed>>
    /\ UNCHANGED <<contents, outstanding, store, other_writes>>
    /\ UNCHANGED <<chunk_vars, retrieve_vars, chat_vars>>

\* main lines 388-409, __main__ lines 452-455: every file was processed; main
\* prints its counts and returns, asyncio.run cancels what is left and the
\* process ends with status 0. A task that returns with a cancellation still
\* pending ends cancelled, and asyncio.run turns that into the
\* KeyboardInterrupt of line 453.
MainDone ==
    /\ m_pc = "loop"
    /\ pf_pc = "idle"
    /\ file_idx > NumFiles
    /\ m_pc' = "exited"
    /\ exit_code' = 0
    /\ interrupted' = must_cancel
    /\ must_cancel' = FALSE
    /\ outstanding' = {}
    /\ ProcessGone
    /\ UNCHANGED <<run, file_idx, m_successful, m_failed>>
    /\ UNCHANGED <<pf_pc, outcome, fatal, contents, store, other_writes>>
    /\ UNCHANGED <<chunk_vars, retrieve_vars, chat_vars>>

\* __main__ lines 453-455: the user interrupts the run and KeyboardInterrupt
\* is raised where the program is (the default handler of the interpreter, an
\* interrupt while the event loop waits, or a second interrupt); sys.exit(0).
Interrupt ==
    /\ m_pc = "loop"
    /\ m_pc' = "exited"
    /\ exit_code' = 0
    /\ interrupted' = TRUE
    /\ must_cancel' = FALSE
    /\ outstanding' = {}
    /\ ProcessGone
    /\ UNCHANGED <<run, file_idx, m_successful, m_failed>>
    /\ UNCHANGED <<pf_pc, outcome, fatal, contents, store, other_writes>>
    /\ UNCHANGED <<chunk_vars, retrieve_vars, chat_vars>>

\* main's task is inside a blocking call of the store, the check of a file or
\* the insert of a chunk: code that does not await.
Synchronous ==
    \/ pf_pc = "check"
    \/ pf_pc = "gather" /\ Joined

\* __main__ line 452: asyncio.run (Python 3.11 and later) answers the first
\* interrupt by asking for the cancellation of main's task; the code that is
\* running goes on until its next await.
InterruptRequested ==
    /\ m_pc = "loop"
    /\ ~must_cancel
    /\ Synchronous
    /\ must_cancel' = TRUE
    /\ UNCHANGED <<run, m_pc, exit_code, interrupted, file_idx, m_successful,
                   m_failed>>
    /\ UNCHANGED <<pf_vars, run_vars, contents, outstanding, store,
                   other_writes>>
    /\ UNCHANGED <<chunk_vars, retrieve_vars, chat_vars>>

\* process_file lines 291 and 333: the pending cancellation is raised at the
\* next await (CancelledError is not an Exception, so lines 338 and 346 let
\* it pass); asyncio.run raises KeyboardInterrupt, sys.exit(0) at line 455.
CancelDelivered ==
    /\ m_pc = "loop"
    /\ must_cancel
    /\ pf_pc \in {"chunk", "sleep"}
    /\ m_pc' = "exited"
    /\ exit_code' = 0
    /\ interrupted' = TRUE
    /\ must_cancel' = FALSE
    /\ outstanding' = {}
    /\ ProcessGone
    /\ UNCHANGED <<run, file_idx, m_successful, m_failed>>
    /\ UNCHANGED <<pf_pc, outcome, fatal, contents, store, other_writes>>
    /\ UNCHANGED <<chunk_vars, retrieve_vars, chat_vars>>

\* ingest.py is started again, on the same files and the same store.
NextRun ==
    /\ m_pc = "exited"
    /\ run < MaxRuns
    /\ run' = run + 1
    /\ m_pc' = "startup"
    /\ RunReset
    /\ UNCHANGED <<contents, store, other_writes>>
    /\ UNCHANGED <<chunk_vars, retrieve_vars, chat_vars>>

\* Another ingestion process, working on the same file at the same time,
\* inserts one of its rows for that file; the store takes it when it holds no
\* row with that key.  The row arrives before the insert this process is
\* about to make, the only place where this process can see it.
OtherWriter ==
    /\ m_pc = "loop"
    /\ pf_pc = "gather"
    /\ Joined
    /\ other_writes < MaxOther
    /\ \E c \in 0..(Len(chunks) - 1) :
          /\ store_accepts(store, file_idx, c)
          /\ store' = store \cup
                 {Row(file_idx, c, chunks[c + 1], VectorOf(chunks[c + 1]),
                      SummaryOf(chunks[c + 1]))}
    /\ other_writes' = other_writes + 1
    /\ UNCHANGED <<main_vars, pf_vars, run_vars, contents, outstanding>>
    /\ UNCHANGED <<chunk_vars, retrieve_vars, chat_vars>>

Next ==
    \/ StartupOk
    \/ StartupFail
    \/ ProcessFileStart
    \/ CheckExistingOk
    \/ CheckExistingFail
    \/ GatherStart
    \/ EmbeddingOk
    \/ EmbeddingFail
    \/ SummaryOk
    \/ SummaryFail
    \/ InsertOk
    \/ InsertDuplicate
    \/ InsertFail
    \/ SleepDone
    \/ MainDone
    \/ Interrupt
    \/ InterruptRequested
    \/ CancelDelivered
    \/ NextRun
    \/ OtherWriter

Spec == Init /\ [][Next]_vars

(***************************************************************************)
(* Properties of chunk_text, checked under SpecChunk.                       *)
(***************************************************************************)
ChunkReturned == chunk_pc = "return"

\* chunk_text truncated a chunk: a packed chunk was longer than the limit, or
\* nothing was packed and the text itself was cut (line 99).
Truncated(t, max) ==
    /\ Len(t) > max
    /\ \/ packed_chunks(t, max) = <<>>
       \/ \E k \in 1..Len(packed_chunks(t, max)) : Len(packed_chunks(t, max)[k]) > max

\* The paragraphs of a text, each stripped, the empty ones left out.
StrippedParagraphs(t) ==
    LET ps == split(t)
    IN  SelectSeq([k \in 1..Len(ps) |-> strip(ps[k])], LAMBDA p : p # <<>>)

\* C6: every chunk chunk_text returns is at most max_chunk_size long.
C6_ChunkSizeBound ==
    ChunkReturned =>
        \A k \in 1..Len(final_chunks) : Len(final_chunks[k]) <= max_chunk_size

\* C6 witness: a paragraph longer than the limit was packed and came back cut.
C6_Witness ==
    /\ ChunkReturned
    /\ Truncated(text, max_chunk_size)
    /\ \E k \in 1..Len(final_chunks) : Len(final_chunks[k]) = max_chunk_size

\* C7 as claimed: when nothing is truncated, the chunks joined with the
\* blank-line separator have exactly the paragraphs of the input, in order.
C7_Original ==
    (ChunkReturned /\ ~Truncated(text, max_chunk_size)) =>
        split(join(final_chunks)) = split(text)

\* C7 amended: when nothing is truncated, the chunks joined with the blank-line
\* separator have the paragraphs of the input up to whitespace: stripping every
\* paragraph and leaving out the empty ones gives the same sequence for both.
C7_CoverageUpToWhitespace ==
    (ChunkReturned /\ ~Truncated(text, max_chunk_size)) =>
        StrippedParagraphs(join(final_chunks)) = StrippedParagraphs(text)

\* C7 witness: a text longer than the limit came back as several chunks, none
\* truncated, one of them holding two paragraphs.
C7_Witness ==
    /\ ChunkReturned
    /\ Len(text) > max_chunk_size
    /\ ~Truncated(text, max_chunk_size)
    /\ Len(final_chunks) >= 2
    /\ \E k \in 1..Len(final_chunks) : Len(split(final_chunks[k])) >= 2

ScenarioReturned ==
    /\ ChunkReturned
    /\ text = ScenarioText
    /\ max_chunk_size = Scenario.max_chunk_size

RetrieveReturned == r_pc = "done"

EmbeddingDiagnostics ==
    {embedding_diagnostic(error_msg) : error_msg \in SUBSET EmbedMarkers}

\* The embedding service failed on the query.
QueryEmbeddingFailed ==
    \E k \in 1..Len(ui) : ui[k] \in EmbeddingDiagnostics

\* The store answered the search with rows that all carry a usable
\* similarity (a number, or none, which counts as 0).
SearchAnswered ==
    /\ RetrieveReturned
    /\ r_failure = "none"
    /\ data # <<>>

AllBelowThreshold ==
    \A k \in 1..Len(data) : similarity_of(data[k]) < similarity_threshold

ReturnedIds == {retrieved[k].id : k \in 1..Len(retrieved)}

\* C2 as claimed: when the store returns at least two candidates, all below
\* the threshold, exactly 2 results are returned, and no candidate left out
\* is more similar than a returned one.
C2_Original ==
    (SearchAnswered /\ Len(data) >= 2 /\ AllBelowThreshold) =>
        /\ Len(retrieved) = 2
        /\ \A i \in 1..Len(data) : \A k \in 1..Len(retrieved) :
              data[i].id \notin ReturnedIds =>
                  similarity_of(data[i]) <= similarity_of(retrieved[k])

\* C3 as claimed: the returned sequence is ordered by non-increasing
\* similarity, whatever the order of the store's answer.
C3_Original ==
    RetrieveReturned =>
        \A i \in 1..Len(retrieved) : \A j \in i..Len(retrieved) :
            similarity_of(retrieved[i]) >= similarity_of(retrieved[j])

\* C4 as claimed: when the embedding service fails on the query, the
\* retrieval returns the empty list and raises nothing.
C4_Original ==
    (RetrieveReturned /\ QueryEmbeddingFailed) =>
        retrieved = <<>> /\ ~r_raised

DiagnosticFits(diagnostic, error_msg) ==
    /\ diagnostic \in {"embedding: invalid key", "embedding: quota",
                       "embedding: rate limit", "embedding: error"}
    /\ diagnostic = "embedding: invalid key" => "invalid_api_key" \in error_msg
    /\ diagnostic = "embedding: quota" =>
           ("insufficient_quota" \in error_msg \/ "billing" \in error_msg)
    /\ diagnostic = "embedding: rate limit" => "rate_limit" \in error_msg
    /\ diagnostic = "embedding: error" <=> error_msg \cap EmbedMarkers = {}

\* C14: when the embedding call of the query fails, get_embedding raises
\* nothing, returns the vector of 1536 zeros and shows a diagnostic that fits
\* the error text.
C14_QueryEmbeddingDegrades ==
    \A error_msg \in embed_failures :
        /\ r_pc \in {"search", "done"}
        /\ ~r_raised
        /\ query_embedding.kind = "zeros"
        /\ query_embedding.dim = 1536
        /\ Len(ui) >= 1
        /\ DiagnosticFits(ui[1], error_msg)

\* C14 witness: the call failed with a text that names both the quota and the
\* rate limit; the quota diagnostic was shown.
C14_Witness ==
    /\ embed_failures = {{"insufficient_quota", "rate_limit"}}
    /\ ui[1] = "embedding: quota"
    /\ query_embedding.kind = "zeros"

(***************************************************************************)
(* Properties of generate_response and of the chat flow, checked under      *)
(* SpecChat.                                                                *)
(***************************************************************************)
GenerateReturned == g_pc = "returned"

\* C15: generate_response called without context returns the fixed message
\* and sends no request to the completion model; in the chat flow
\* generate_response is called with sources only, and a turn whose retrieval
\* gave no sources sends no request.
C15_EmptyContextNoCompletion ==
    /\ (GenerateReturned /\ g_context = <<>>) =>
           (g_result = Str(NoInformation) /\ ~g_requested)
    /\ chat_pc = "generate" => (sources # <<>> /\ g_context = sources)
    /\ (chat_pc # "off" /\ sources = <<>>) => (~g_requested /\ g_pc = "idle")

\* C15 witness: generate_response was called with no context document and
\* has returned.
C15_Witness ==
    /\ chat_pc = "off"
    /\ GenerateReturned
    /\ g_context = <<>>
    /\ ~g_result.none

\* The categories of a failing completion, in the order they are tried, each
\* with the markers that select it and the text returned for it.
ErrorCategories ==
    << [text |-> "error: invalid key", any |-> {{"invalid_api_key"}}],
       [text |-> "error: quota", any |-> {{"insufficient_quota"}, {"billing"}}],
       [text |-> "error: rate limit", any |-> {{"rate_limit"}}],
       [text |-> "error: model not found", any |-> {{"model", "not found"}}],
       [text |-> "error: generating response", any |-> {{}}] >>

CategoryMatches(k, error_msg) ==
    \E markers \in ErrorCategories[k].any : markers \subseteq error_msg

\* The first category, in that order, that matches the error text.
FirstCategory(error_msg) ==
    CHOOSE k \in 1..Len(ErrorCategories) :
        /\ CategoryMatches(k, error_msg)
        /\ \A j \in 1..(k - 1) : ~CategoryMatches(j, error_msg)

\* C16: when the completion call fails, generate_response returns (it does
\* not raise) a non-empty text, that of the first category matching the error
\* text in the order auth, quota, rate limit, model not found, generic.
C16_GenerationErrorText ==
    \A error_msg \in g_errors :
        /\ GenerateReturned
        /\ g_requested
        /\ ~g_result.none
        /\ g_result.s # ""
        /\ g_result.s = ErrorCategories[FirstCategory(error_msg)].text

\* C16 witness: the call failed with a text naming the quota, the rate limit
\* and a model that was not found; the quota text was returned.
C16_Witness ==
    /\ g_errors = {{"billing", "rate_limit", "model", "not found"}}
    /\ GenerateReturned
    /\ g_result = Str("error: quota")

\* The history is a sequence of completed interactions: a user turn, then an
\* assistant turn with a text that is not empty.
CompletedInteractions ==
    /\ Len(messages) % 2 = 0
    /\ \A i \in 1..Len(messages) :
          IF i % 2 = 1
          THEN messages[i].role = "user"
          ELSE messages[i].role = "assistant" /\ messages[i].content # ""

\* C17 as claimed: with an OpenAI client, when the chat waits for the next
\* prompt every prompt submitted has given one user turn followed by one
\* assistant turn with a text that is not empty, and nothing was raised.
C17_Original ==
    (chat_pc = "input" /\ client_ok) =>
        /\ Len(messages) = 2 * submitted
        /\ CompletedInteractions
        /\ ~chat_raised

(***************************************************************************)
(* Properties of the ingestion runs, checked under Spec.                    *)
(***************************************************************************)
\* The file the current call of process_file is about; between two calls,
\* the file of the last call (0 before the first call of the run).
CurrentFile == IF pf_pc = "idle" THEN file_idx - 1 ELSE file_idx

\* process_file has returned, and main has not called it again.
JustReturned == pf_pc = "idle" /\ CurrentFile >= 1

FileChunks == [t \in FileTexts |-> chunk_text(t, MAX_CHUNK_SIZE)]

ChunksOf(f) == FileChunks[contents[f]]

RowsWithKey(f, c) == {r \in store : r.url = f /\ r.chunk_number = c}

\* C1: a file whose url was in the store when process_file checked it is
\* reported as already processed and successful, nothing is requested or
\* inserted for it, and the store holds exactly one row for each of its
\* (url, chunk_number).
C1_IdempotentIngestion ==
    (JustReturned /\ seen_in_store) =>
        /\ skipped
        /\ outcome[CurrentFile] = "true"
        /\ attempted = {}
        /\ inserted = {}
        /\ RowsOf(store, CurrentFile) # {}
        /\ \A r \in RowsOf(store, CurrentFile) :
              Cardinality(RowsWithKey(CurrentFile, r.chunk_number)) = 1

\* C1 witness: the second run finds the two chunks the first run persisted,
\* and skips the file.
C1_Witness ==
    /\ run = 2
    /\ other_writes = 0
    /\ JustReturned
    /\ skipped
    /\ Len(ChunksOf(CurrentFile)) = 2
    /\ \A c \in 0..1 : Cardinality(RowsWithKey(CurrentFile, c)) = 1

\* C9 as claimed: after a fatal error on a file no later file is processed,
\* and the process ends with a non-zero exit.
C9_Original ==
    \A f \in fatal :
        /\ CurrentFile <= f
        /\ (m_pc = "exited" /\ ~interrupted) => exit_code = 1

\* C10 as claimed: after the insert of a chunk failed for a reason that is
\* neither a duplicate nor a permission error, the later chunks of the file
\* are still embedded and summarised before process_file returns.
C10_Original ==
    JustReturned =>
        \A c \in insert_failed :
            \A later \in (c + 1)..(Len(ChunksOf(CurrentFile)) - 1) :
                later \in attempted

\* The chunks of the current call that were persisted: inserted, or found
\* already there when their insert was rejected as a duplicate.
Persisted == inserted \cup duplicates

\* C11 as claimed: process_file returns True whenever at least one chunk of
\* the file was persisted during the call, whatever happened to the others.
C11_Original ==
    (JustReturned /\ Persisted # {}) => outcome[CurrentFile] = "true"

\* The store has just rejected the insert of a chunk as a duplicate.
DuplicateRejected == duplicates' # duplicates /\ duplicates' # {}

\* After chunk c the loop went on: c was the last chunk, or the pause after
\* it is running, or the next chunk is about to be or has been requested.
ContinuedAfter(c) ==
    \/ c + 1 >= Len(ChunksOf(CurrentFile))
    \/ pf_pc = "sleep" /\ chunk_num = c
    \/ pf_pc = "chunk" /\ chunk_num = c + 1
    \/ (c + 1) \in attempted

\* C12: a duplicate rejection of an insert counts the chunk as persisted,
\* raises nothing, leaves the store as it was, and the loop goes on with the
\* next chunk.
C12_DuplicateIsSuccess ==
    /\ [][DuplicateRejected =>
            /\ successful' = successful + 1
            /\ store' = store
            /\ raised' = "none"
            /\ fatal' = fatal
            /\ insert_failed' = insert_failed
            /\ outcome' = outcome
            /\ pf_pc' = "sleep"]_vars
    /\ [](\A c \in duplicates : raised = "none" => ContinuedAfter(c))

\* C12 witness: the insert of chunk 0 was rejected as a duplicate, and the
\* next chunk was requested.
C12_Witness ==
    /\ duplicates = {0}
    /\ inserted = {}
    /\ successful = 1
    /\ 1 \in attempted
    /\ pf_pc = "gather"

\* The classified errors get_embedding raises.
EmbeddingErrorClasses ==
    {ingest_embedding_error(error_msg) : error_msg \in EmbeddingErrors}

\* The embedding request process_file is waiting for has just been answered.
EmbeddingAnswered ==
    /\ m_pc' = "loop"
    /\ \E req \in outstanding \ outstanding' : req.kind = "embedding"

\* C13: a failed embedding call reaches process_file as a classified error
\* and ends the call without a row for that chunk; an answered call gives the
\* vector of the chunk; and every row of the store carries the vector the
\* embedding service returned for its content.
C13_NoFallbackVector ==
    /\ [][EmbeddingAnswered =>
            \/ /\ embedding' = [kind |-> "vector", of |-> chunks[chunk_num + 1]]
               /\ raised' = raised
               /\ pf_pc' = "gather"
            \/ /\ raised' \in EmbeddingErrorClasses
               /\ pf_pc' = "idle"
               /\ outcome'[file_idx] = "false"
               /\ store' = store]_vars
    /\ [](\A r \in store : r.embedding = [kind |-> "vector", of |-> r.content])

\* C13 witness: the embedding call of the second chunk failed after the first
\* chunk was inserted; the store holds the first chunk only.
C13_Witness ==
    /\ JustReturned
    /\ raised = "embedding: quota"
    /\ inserted = {0}
    /\ attempted = {0, 1}
    /\ Cardinality(RowsOf(store, CurrentFile)) = 1

\* The rows the store holds for chunk c of the current file.
CurrentRows(c) == RowsWithKey(CurrentFile, c)

\* C18: get_summary raises nothing: a failed summary call gives the sentinel
\* and leaves the gather waiting for the embedding as before, and a chunk
\* that is then inserted is stored with the sentinel as its summary.
C18_SummaryBestEffort ==
    /\ summary.kind \in {"none", "summary", "unavailable"}
    /\ \A c \in summary_failed :
          /\ (pf_pc \in {"gather", "sleep"} /\ chunk_num = c) =>
                 summary = SummaryUnavailable
          /\ (pf_pc = "sleep" /\ chunk_num = c) => c \in Persisted
          /\ c \in inserted =>
                 /\ CurrentRows(c) # {}
                 /\ \A r \in CurrentRows(c) : r.summary = SummaryUnavailable
    /\ raised \in {"none"} \cup EmbeddingErrorClasses
                  \cup {select_error(e) : e \in SelectErrors}
                  \cup {insert_error(e) : e \in InsertErrors}

\* C18 witness: the summary call of the first chunk failed and the chunk was
\* inserted, with the sentinel.
C18_Witness ==
    /\ pf_pc = "sleep"
    /\ chunk_num = 0
    /\ summary_failed = {0}
    /\ inserted = {0}
    /\ \E r \in CurrentRows(0) : r.summary = SummaryUnavailable

\* The chunks of the current call whose insert was issued.
InsertIssued == inserted \cup duplicates \cup insert_failed

\* C19: when the insert of a chunk is issued, neither the embedding request
\* nor the summary request of that chunk is outstanding, and the row inserted
\* carries the two results of the gather.
C19_JoinBeforeInsert ==
    /\ \A c \in InsertIssued : \A req \in outstanding :
          ~(req.file = CurrentFile /\ req.chunk = c)
    /\ (pf_pc = "sleep" /\ chunk_num \in inserted) =>
          /\ embedding = VectorOf(chunks[chunk_num + 1])
          /\ summary \in {SummaryOf(chunks[chunk_num + 1]), SummaryUnavailable}
          /\ CurrentRows(chunk_num) =
                 {Row(file_idx, chunk_num, chunks[chunk_num + 1], embedding, summary)}

\* C19 witness: both chunks of a file were inserted, each after its two
\* requests were answered.
C19_Witness ==
    /\ pf_pc = "sleep"
    /\ chunk_num = 1
    /\ inserted = {0, 1}
    /\ summary = SummaryOf(chunks[2])
    /\ outstanding = {}

\* C20 as claimed: at most two remote model requests are outstanding, and
\* they belong to one and the same chunk.
C20_Original ==
    /\ Cardinality(outstanding) <= 2
    /\ \A r1 \in outstanding : \A r2 \in outstanding :
          r1.file = r2.file /\ r1.chunk = r2.chunk

\* C21: the chunks of a file are processed in index order, one at a time:
\* the chunks requested so far are 0..k, every chunk before the last one
\* requested has had its insert (and was persisted), the requests of the
\* current file that are outstanding are those of the chunk being gathered,
\* every row holds the chunk at the position of its chunk_number, and the
\* files are processed one after another (those returned are exactly the
\* files before the current one).
C21_ChunksInOrder ==
    /\ \A c \in attempted :
          \A j \in 0..(c - 1) : j \in attempted /\ j \in Persisted
    /\ InsertIssued \subseteq attempted
    /\ (m_pc = "loop" /\ pf_pc \in {"gather", "sleep"}) =>
          /\ chunk_num \in attempted
          /\ \A c \in attempted : c <= chunk_num
    /\ \A req \in outstanding :
          req.file = file_idx =>
              (pf_pc = "gather" /\ req.chunk = chunk_num)
    /\ \A r \in store :
          /\ r.chunk_number < Len(ChunksOf(r.url))
          /\ r.content = ChunksOf(r.url)[r.chunk_number + 1]
    /\ \A f \in Files :
          /\ outcome[f] # "none" => f < file_idx
          /\ (m_pc = "loop" /\ f < file_idx) => outcome[f] # "none"
          /\ f > file_idx => \A req \in outstanding : req.file # f

\* C21 witness: the second chunk is being gathered after the first was
\* inserted; the store holds the first chunk as number 0.
C21_Witness ==
    /\ pf_pc = "gather"
    /\ chunk_num = 1
    /\ attempted = {0, 1}
    /\ inserted = {0}
    /\ \E r \in CurrentRows(0) : r.content = chunks[1]

\* An interrupt has reached the running process.
InterruptSeen == must_cancel \/ interrupted

\* C22: a run only adds rows to the store (every step keeps the rows that
\* were there), and once the user has interrupted the run main does not
\* start another file.
C22_Original ==
    [][/\ store \subseteq store'
       /\ (InterruptSeen /\ run' = run) =>
              (pf_pc = "idle" => pf_pc' = "idle" /\ file_idx' = file_idx)]_vars

(***************************************************************************)
(* Further properties of retrieve_relevant_documents, checked under        *)
(* SpecRetrieve.                                                           *)
(***************************************************************************)

\* The store answered the search with at least one candidate.
StoreReturned ==
    /\ RetrieveReturned
    /\ r_failure \in {"none", "filter"}
    /\ data # <<>>

\* The positions of the store's answer whose candidate is at or above the
\* threshold (a candidate without a similarity counts as 0).
PassingPositions ==
    {k \in 1..Len(data) : similarity_of(data[k]) >= similarity_threshold}

\* The result is the first max_results passing candidates, in the order of
\* the store's answer.
FirstPassingReturned ==
    /\ Len(retrieved) =
          IF Cardinality(PassingPositions) <= max_results
          THEN Cardinality(PassingPositions) ELSE max_results
    /\ \A j \in 1..Len(retrieved) :
          \E k \in PassingPositions :
              /\ Cardinality({i \in PassingPositions : i < k}) = j - 1
              /\ retrieved[j] = data[k]
    /\ \A j \in 1..Len(retrieved) :
          similarity_of(retrieved[j]) >= similarity_threshold

\* C23 as claimed: whenever the store returned a candidate at or above the
\* threshold, the results are the first max_results passing candidates, all
\* at or above the threshold.
C23_Original ==
    (StoreReturned /\ PassingPositions # {}) => FirstPassingReturned

\* C23 amended: the same, when every similarity the store returned is a
\* number or absent; when one is not a number, the comparison fails and the
\* result is empty.
C23_FirstPassing ==
    /\ (SearchAnswered /\ PassingPositions # {}) => FirstPassingReturned
    /\ (StoreReturned /\ r_failure = "filter") => retrieved = <<>>

\* C23 witness: three candidates, the first below the threshold, the second
\* exactly at it and the third above; with max_results = 1 the second is
\* the result.
C23_Witness ==
    /\ SearchAnswered
    /\ max_results = 1
    /\ Len(data) = 3
    /\ similarity_of(data[1]) < similarity_threshold
    /\ similarity_of(data[2]) = similarity_threshold
    /\ similarity_of(data[3]) > similarity_threshold
    /\ retrieved = <<data[2]>>

\* C28 as claimed: whatever the store answers, at most max_results results
\* are returned.
C28_Original ==
    RetrieveReturned => Len(retrieved) <= max_results

(***************************************************************************)
(* Further properties of chunk_text, checked under SpecChunk.               *)
(***************************************************************************)

\* C24: for a non-empty text chunk_text returns at least one chunk.
C24_AtLeastOneChunk ==
    (ChunkReturned /\ text # <<>>) => Len(final_chunks) >= 1

\* C24 witness: a text longer than the limit in which nothing could be
\* packed (every paragraph is empty) came back as its first max_chunk_size
\* characters.
C24_Witness ==
    /\ ChunkReturned
    /\ Len(text) > max_chunk_size
    /\ packed_chunks(text, max_chunk_size) = <<>>
    /\ final_chunks = <<SubSeq(text, 1, max_chunk_size)>>

\* C25: a text no longer than the limit comes back as the single chunk
\* [text], unchanged.
C25_ShortTextUnchanged ==
    (ChunkReturned /\ Len(text) <= max_chunk_size) => final_chunks = <<text>>

\* C25 witness: a short text that starts with whitespace and holds a
\* paragraph separator came back whole.
C25_Witness ==
    /\ ChunkReturned
    /\ Len(text) <= max_chunk_size
    /\ Len(text) >= 4
    /\ IsSpace(text[1])
    /\ Len(split(text)) >= 2
    /\ final_chunks = <<text>>

\* The 1-based positions of the periods in the first max characters of a chunk.
PeriodsInWindow(chunk, max) == {i \in 1..max : chunk[i] = Period}

\* The last of a non-empty set of positions.
LastOf(P) == CHOOSE i \in P : \A j \in P : j <= i

\* The chunk of the result is what the rule makes of the packed chunk: the
\* first max characters, or, when the last period of those lies at an index
\* (0-based) above 0.8 * max, the characters up to that period.
CutByRule(cut, chunk, max) ==
    LET P == PeriodsInWindow(chunk, max)
    IN  /\ cut = SubSeq(chunk, 1, Len(cut))
        /\ IF P # {} /\ (LastOf(P) - 1) * 10 > max * 8
           THEN Len(cut) = LastOf(P)
           ELSE Len(cut) = max
        /\ Len(cut) * 10 > max * 8
        /\ Len(cut) <= max

\* C26: every packed chunk longer than the limit is replaced by its prefix
\* according to the rule, so its length is above 0.8 * max_chunk_size and at
\* most max_chunk_size.
C26_TruncationRule ==
    (ChunkReturned /\ Len(text) > max_chunk_size) =>
        LET packed == packed_chunks(text, max_chunk_size)
        IN  \A k \in 1..Len(packed) :
                Len(packed[k]) > max_chunk_size =>
                    /\ k <= Len(final_chunks)
                    /\ CutByRule(final_chunks[k], packed[k], max_chunk_size)

\* C26 witness: a chunk was cut after a period that is not the last
\* character of the window, although an earlier period exists too.
C26_Witness ==
    /\ ChunkReturned
    /\ Truncated(text, max_chunk_size)
    /\ Len(final_chunks) = 1
    /\ Len(final_chunks[1]) < max_chunk_size
    /\ final_chunks[1][Len(final_chunks[1])] = Period
    /\ Cardinality(PeriodsInWindow(text, max_chunk_size)) = 2

\* The text holds a character that is not whitespace.
HasNonWhitespace(t) == \E i \in 1..Len(t) : ~IsSpace(t[i])

\* C29 as claimed: for a text with a non-whitespace character, every chunk
\* returned is a non-empty string.
C29_Original ==
    (ChunkReturned /\ HasNonWhitespace(text)) =>
        \A k \in 1..Len(final_chunks) : final_chunks[k] # <<>>

(***************************************************************************)
(* Further properties of the ingestion runs, checked under Spec.            *)
(***************************************************************************)

\* Every chunk of the file has a row in the store.
Complete(f) ==
    \A c \in 0..(Len(ChunksOf(f)) - 1) : RowsWithKey(f, c) # {}

\* C27 as claimed: at the end of every run, every file that process_file
\* reported as successful or already processed has all of its chunks in the
\* store.
C27_Original ==
    m_pc = "exited" =>
        \A f \in Files : outcome[f] = "true" => Complete(f)

(***************************************************************************)
(* Further properties of generate_response, checked under SpecChat.         *)
(***************************************************************************)

\* C30: for a non-empty context generate_response makes one request, whose
\* system prompt holds exactly one entry per context document, in the order
\* of the input, numbered from 1, each with the title, the summary and the
\* content of its document and the relevance similarity * 100 cut to an
\* integer.
C30_PromptEntries ==
    (GenerateReturned /\ g_context # <<>>) =>
        /\ g_requested
        /\ Len(g_prompt) = Len(g_context)
        /\ \A i \in 1..Len(g_context) :
              /\ g_prompt[i].number = i
              /\ g_prompt[i].title = [column |-> "title", row |-> g_context[i].id]
              /\ g_prompt[i].summary =
                     [column |-> "summary", row |-> g_context[i].id]
              /\ g_prompt[i].content =
                     [column |-> "content", row |-> g_context[i].id]
              /\ g_prompt[i].relevance \in Int
              /\ similarity_of(g_context[i]) >= 0 =>
                     /\ g_prompt[i].relevance * 10 <= similarity_of(g_context[i])
                     /\ similarity_of(g_context[i]) < (g_prompt[i].relevance + 1) * 10
              /\ similarity_of(g_context[i]) < 0 =>
                     /\ g_prompt[i].relevance * 10 >= similarity_of(g_context[i])
                     /\ similarity_of(g_context[i]) > (g_prompt[i].relevance - 1) * 10

\* C30 witness: a chat turn whose retrieval found two documents, the less
\* similar one second; the prompt lists them in that order, as 1 and 2, the
\* second with 29% for a similarity of 0.299.
C30_Witness ==
    /\ chat_pc = "generate"
    /\ GenerateReturned
    /\ Len(g_context) = 2
    /\ similarity_of(g_context[2]) = 299
    /\ Len(g_prompt) = 2
    /\ g_prompt[1].number = 1
    /\ g_prompt[1].relevance = 30
    /\ g_prompt[2].number = 2
    /\ g_prompt[2].relevance = 29

====
